---- MODULE Spec2Model ----
(***************************************************************************)
(* Model of hotel/pms_systems.py: the Apaleo webhook reconciliation       *)
(* pipeline (PMS_Apaleo.handle_webhook), the retrying vendor call          *)
(* (api_call_retry) and the phone identity resolver                        *)
(* (check_and_resolve_phone_number).                                       *)
(*                                                                         *)
(* Python strings are sequences of one-character strings, so that          *)
(* concatenation, str.replace, str.strip and str.lower are computed the    *)
(* way the interpreter computes them.                                      *)
(***************************************************************************)
EXTENDS Integers, Sequences, FiniteSets, TLC

VARIABLES
    guests,     \* Guest table: row i is the Guest with primary key i
    stays,      \* Stay table: row i is the Stay with primary key i
    hw,         \* handle_webhook: position, argument, locals, return value
    obs,        \* what the handle_webhook calls so far did (history)
    last,       \* the latest top-level check_and_resolve_phone_number call
    rc,         \* the latest api_call_retry call and what it did
    cw,         \* the latest clean_webhook_payload call and what it did
    th          \* two check_and_resolve_phone_number calls running concurrently

vars == <<guests, stays, hw, obs, last, rc, cw, th>>

NONE == "None"          \* None where the other values are enum members
NoneStr == <<"None">>   \* None where the other values are strings
NoId == 0               \* None where the other values are primary keys
NoneDict == [None |-> TRUE]     \* None where the other values are records
NoneList == <<NoneDict>>        \* None where the other values are lists of records
NoCall == [phone |-> NoneStr]   \* no direct call of a function was made yet

\* ------------------------------------------------------------------ bounds
MaxGuests == 4      \* Guest rows the resolver specification grows the table to
MaxRetry == 3       \* largest retry argument tried on api_call_retry alone
MaxEvents == 2      \* longest Events list of a webhook payload
MaxCalls == 3       \* most webhooks delivered one after the other

\* --------------------------------------------------------- string helpers
Whitespace == {" ", "\n"}

LowerChar(c) ==
    CASE c = "A" -> "a"
      [] c = "B" -> "b"
      [] c = "C" -> "c"
      [] c = "D" -> "d"
      [] c = "E" -> "e"
      [] c = "H" -> "h"
      [] c = "I" -> "i"
      [] c = "L" -> "l"
      [] c = "N" -> "n"
      [] c = "U" -> "u"
      [] OTHER -> c

\* str.lower()
Lower(s) == [i \in DOMAIN s |-> LowerChar(s[i])]

\* str.strip(): leading and trailing whitespace removed
RECURSIVE LStrip(_)
LStrip(s) ==
    IF s # <<>> /\ Head(s) \in Whitespace THEN LStrip(Tail(s)) ELSE s

RECURSIVE RStrip(_)
RStrip(s) ==
    IF s # <<>> /\ s[Len(s)] \in Whitespace
    THEN RStrip(SubSeq(s, 1, Len(s) - 1))
    ELSE s

Strip(s) == RStrip(LStrip(s))

StartsWith(s, p) == Len(s) >= Len(p) /\ SubSeq(s, 1, Len(p)) = p

\* str.replace(old, ""): every non-overlapping occurrence, left to right
RECURSIVE RemoveAll(_, _)
RemoveAll(s, old) ==
    IF s = <<>> THEN <<>>
    ELSE IF StartsWith(s, old)
         THEN RemoveAll(SubSeq(s, Len(old) + 1, Len(s)), old)
         ELSE <<Head(s)>> \o RemoveAll(Tail(s), old)

\* ------------------------------------------- datetime.strptime(s, "%Y-%m-%d")
Digits == {"0", "1", "2", "3", "4", "5", "6", "7", "8", "9"}

DigitVal(c) ==
    CASE c = "0" -> 0 [] c = "1" -> 1 [] c = "2" -> 2 [] c = "3" -> 3
      [] c = "4" -> 4 [] c = "5" -> 5 [] c = "6" -> 6 [] c = "7" -> 7
      [] c = "8" -> 8 [] c = "9" -> 9

\* the directive %m: 1[0-2] | 0[1-9] | [1-9]
MatchesMonth(f) ==
    \/ Len(f) = 2 /\ f[1] = "1" /\ f[2] \in {"0", "1", "2"}
    \/ Len(f) = 2 /\ f[1] = "0" /\ f[2] \in Digits \ {"0"}
    \/ Len(f) = 1 /\ f[1] \in Digits \ {"0"}

\* the directive %d: 3[0-1] | [1-2]\d | 0[1-9] | [1-9] | " "[1-9]
MatchesDay(f) ==
    \/ Len(f) = 2 /\ f[1] = "3" /\ f[2] \in {"0", "1"}
    \/ Len(f) = 2 /\ f[1] \in {"1", "2"} /\ f[2] \in Digits
    \/ Len(f) = 2 /\ f[1] \in {"0", " "} /\ f[2] \in Digits \ {"0"}
    \/ Len(f) = 1 /\ f[1] \in Digits \ {"0"}

\* the value of a field of digits, a leading blank counting for nothing
RECURSIVE FieldVal(_)
FieldVal(f) ==
    IF f = <<>> THEN 0
    ELSE IF f[Len(f)] = " " THEN 0
    ELSE 10 * FieldVal(SubSeq(f, 1, Len(f) - 1)) + DigitVal(f[Len(f)])

IsLeap(y) == (y % 4 = 0 /\ y % 100 # 0) \/ y % 400 = 0

DaysInMonth(y, m) ==
    IF m = 2 THEN (IF IsLeap(y) THEN 29 ELSE 28)
    ELSE IF m \in {4, 6, 9, 11} THEN 30 ELSE 31

\* datetime.strptime(s, "%Y-%m-%d").date(): the date, or NoneDict when the call
\* raises (s is None, s does not match the format, or it names no calendar day)
StrptimeDate(s) ==
    IF s = NoneStr \/ Len(s) < 6 THEN NoneDict
    ELSE LET year == SubSeq(s, 1, 4)
             rest == SubSeq(s, 6, Len(s))
             dashes == {k \in DOMAIN rest : rest[k] = "-"}
         IN  IF (\E k \in 1..4 : year[k] \notin Digits) \/ s[5] # "-" \/ dashes = {}
             THEN NoneDict
             ELSE LET cut == CHOOSE k \in dashes : \A l \in dashes : k <= l
                      month == SubSeq(rest, 1, cut - 1)
                      day == SubSeq(rest, cut + 1, Len(rest))
                  IN  IF ~MatchesMonth(month) \/ ~MatchesDay(day) THEN NoneDict
                      ELSE LET y == FieldVal(year)
                               m == FieldVal(month)
                               d == FieldVal(day)
                           IN  IF y < 1 \/ d > DaysInMonth(y, m) THEN NoneDict
                               ELSE [year |-> y, month |-> m, day |-> d]

\* a string in the form YYYY-MM-DD: four digits, two digits, two digits
IsYYYYMMDD(s) ==
    /\ s # NoneStr
    /\ Len(s) = 10
    /\ s[5] = "-" /\ s[8] = "-"
    /\ \A k \in {1, 2, 3, 4, 6, 7, 9, 10} : s[k] \in Digits

\* --------------------------------------------------------- api_call_retry
\* What one invocation of the wrapped function does: it returns, it raises
\* APIError, or it raises some other exception.
FnOutcomes == {"ok", "APIError", "Error"}

\* the retry test with the comparison off by one
RetryLeft_OffByOne(retry) == retry > 1

\* "if retry > 0"
RetryLeft(retry) == retry > 0

\* every exception of the wrapped function taken for the vendor's APIError
IsAPIError_AnyError(outcome) == outcome # "ok"

\* "except APIError": the exception the wrapper catches
IsAPIError(outcome) == outcome = "APIError"

\* api_call_retry(func, param, retry, wait), where invocation k of func ends as
\* script[k]; done is the number of invocations made before this activation.
\* Gives the way the call ends ("ok": it returns func's result), the number of
\* invocations of func, and the trace of invocations and sleeps.
RECURSIVE api_call_retry(_, _, _)
api_call_retry(script, done, retry) ==
    LET outcome == script[done + 1]
    IN  IF outcome = "ok"
        THEN [ends |-> "ok", invocations |-> done + 1, trace |-> <<"call">>]
        ELSE IF IsAPIError(outcome)
        THEN IF RetryLeft(retry)
             THEN LET r == api_call_retry(script, done + 1, retry - 1)
                  IN  [r EXCEPT !.trace = <<"call", "sleep">> \o @]
             ELSE [ends |-> "APIError", invocations |-> done + 1,
                   trace |-> <<"call", "sleep">>]
        ELSE [ends |-> "Error", invocations |-> done + 1, trace |-> <<"call">>]

\* ------------------------------------------------------------ Guest table
DUPLICATE_PHONE_SUFFIX == <<"_", "-", "1">>

UPDATE_MODE_CREATE == 1
UPDATE_MODE_UPDATE == 2
MODE == UPDATE_MODE_UPDATE

RESULT_NONE == 0
RESULT_CREATE == 1
RESULT_UPDATE == 2

\* Guest.objects.filter(phone=guestPhone).first(): the matching row with the
\* lowest primary key, or None
GuestFirstByPhone(gs, phone) ==
    LET hits == {i \in DOMAIN gs : gs[i].phone = phone}
    IN  IF hits = {} THEN NoId
        ELSE CHOOSE i \in hits : \A j \in hits : i <= j

\* Guest.objects.filter(id=guestId).update(phone=guestPhone)
GuestUpdatePhone(gs, guestId, phone) ==
    [i \in DOMAIN gs |->
        IF i = guestId THEN [gs[i] EXCEPT !.phone = phone] ELSE gs[i]]

\* a create that drops the language
GuestCreate_NoLanguage(gs, name, phone, language) ==
    Append(gs, [phone |-> phone, name |-> name, language |-> NONE])

\* Guest.objects.create(name=..., phone=..., language=...)
GuestCreate(gs, name, phone, language) ==
    Append(gs, [phone |-> phone, name |-> name, language |-> language])

\* the "different guest" test of the resolver
DifferentGuest(dbGuest, guestName, guestLang) ==
    \/ Lower(Strip(dbGuest.name)) # Lower(Strip(guestName))
    \/ dbGuest.language # guestLang

\* the phone given to the Guest created beside a relocated one
RelocatedCreatePhone(guestPhone) ==
    RemoveAll(guestPhone, DUPLICATE_PHONE_SUFFIX)

\* the phone with the suffix put before it
DuplicatePhone_Prepended(guestPhone) == DUPLICATE_PHONE_SUFFIX \o guestPhone

\* duplicatePhone = guestPhone + DUPLICATE_PHONE_SUFFIX
DuplicatePhone(guestPhone) == guestPhone \o DUPLICATE_PHONE_SUFFIX

\* check_and_resolve_phone_number(guestPhone, guestName, guestLang, guestId):
\* the returned Guest (its primary key), the returned result code, the Guest
\* table afterwards, the number of invocations of the function, and the phones
\* its invocations looked up, the outermost first
RECURSIVE check_and_resolve_phone_number(_, _, _, _, _)
check_and_resolve_phone_number(gs, guestPhone, guestName, guestLang, guestId) ==
    LET dbGuest == GuestFirstByPhone(gs, guestPhone)
    IN  IF dbGuest # NoId
        THEN IF DifferentGuest(gs[dbGuest], guestName, guestLang)
             THEN LET duplicatePhone == DuplicatePhone(guestPhone)
                      r == check_and_resolve_phone_number(
                               gs, duplicatePhone, guestName, guestLang,
                               IF MODE = UPDATE_MODE_CREATE THEN NoId ELSE dbGuest)
                  IN  [r EXCEPT !.calls = @ + 1,
                                !.lookups = <<guestPhone>> \o @]
             ELSE [guest |-> dbGuest, result |-> RESULT_NONE, guests |-> gs,
                   calls |-> 1, lookups |-> <<guestPhone>>]
        ELSE IF MODE = UPDATE_MODE_UPDATE /\ guestId # NoId
        THEN LET updated == GuestUpdatePhone(gs, guestId, guestPhone)
                 created == GuestCreate(updated, guestName,
                                        RelocatedCreatePhone(guestPhone), guestLang)
             IN  [guest |-> Len(created), result |-> RESULT_UPDATE,
                  guests |-> created, calls |-> 1, lookups |-> <<guestPhone>>]
        ELSE LET created == GuestCreate(gs, guestName, guestPhone, guestLang)
             IN  [guest |-> Len(created), result |-> RESULT_CREATE,
                  guests |-> created, calls |-> 1, lookups |-> <<guestPhone>>]

\* ------------------------------------------------------------- the vendor
\* The bound hotel (self.hotel) and the vendor's identifier of it.  A UUID text
\* is one of a few strings: the canonical text of the bound hotel's UUID, the
\* same UUID in capitals, the canonical text of another hotel's UUID, that of a
\* UUID no local Hotel has, and a text that is no UUID.
HotelLocalId == 1
OtherLocalId == 2
HotelUuidText == "851df8c8"
HotelUuidUpper == "851DF8C8"
OtherUuidText == "0a0a0a0a"
UnknownUuidText == "ffffffff"
BadUuidText == "not-a-uuid"

\* str(UUID(text)): the canonical text, or NONE when UUID(text) raises
UuidCanonical(text) ==
    CASE text = HotelUuidText -> HotelUuidText
      [] text = HotelUuidUpper -> HotelUuidText
      [] text = OtherUuidText -> OtherUuidText
      [] text = UnknownUuidText -> UnknownUuidText
      [] OTHER -> NONE

\* dates as the vendor writes them
DateJan5 == <<"2", "0", "2", "3", "-", "0", "1", "-", "0", "5">>
DateJan7 == <<"2", "0", "2", "3", "-", "0", "1", "-", "0", "7">>
DateShort == <<"2", "0", "2", "3", "-", "1", "-", "5">>
DateSlashes == <<"0", "5", "/", "0", "1", "/", "2", "0", "2", "3">>

\* get_reservation_details(reservationId), parsed: what the vendor answers for
\* each reservation it knows
VendorReservation(rid) ==
    CASE rid = <<"1">> ->
            [HotelId |-> HotelUuidText, ReservationId |-> rid, GuestId |-> <<"a">>,
             Status |-> <<"b", "o", "o", "k", "e", "d">>,
             CheckInDate |-> DateJan5, CheckOutDate |-> DateJan7]
      [] rid = <<"2">> ->
            [HotelId |-> HotelUuidText, ReservationId |-> rid, GuestId |-> <<"b">>,
             Status |-> <<"I", "n", "_", "H", "o", "u", "s", "e">>,
             CheckInDate |-> DateShort, CheckOutDate |-> DateJan7]
      [] rid = <<"3">> ->
            [HotelId |-> HotelUuidText, ReservationId |-> rid, GuestId |-> <<"c">>,
             Status |-> <<"h", "e", "l", "d">>,
             CheckInDate |-> DateJan5, CheckOutDate |-> DateJan7]
      [] rid = <<"4">> ->
            [HotelId |-> HotelUuidText, ReservationId |-> rid, GuestId |-> <<"d">>,
             Status |-> <<"c", "a", "n", "c", "e", "l", "l", "e", "d">>,
             CheckInDate |-> DateJan5, CheckOutDate |-> DateSlashes]
      [] rid = <<"5">> ->
            [HotelId |-> OtherUuidText, ReservationId |-> rid, GuestId |-> <<"a">>,
             Status |-> <<"b", "o", "o", "k", "e", "d">>,
             CheckInDate |-> DateJan5, CheckOutDate |-> DateJan7]

\* get_guest_details(guestId), parsed
VendorGuest(gid) ==
    CASE gid = <<"a">> ->
            [GuestId |-> gid, Phone |-> <<"5">>, Name |-> <<"A", "n">>,
             Country |-> <<"N", "L">>]
      [] gid = <<"b">> ->
            [GuestId |-> gid, Phone |-> <<"6">>, Name |-> <<"B", "o">>,
             Country |-> <<"n", "u", "l", "l">>]
      [] gid = <<"c">> ->
            [GuestId |-> gid, Phone |-> <<"7", "\n">>, Name |-> NoneStr,
             Country |-> NoneStr]
      [] gid = <<"d">> ->
            [GuestId |-> gid, Phone |-> <<"5">>, Name |-> <<"D", "i">>,
             Country |-> <<"X", "X">>]

\* -------------------------------------------------- handle_webhook's helpers
RETRY == 3
DO_PHONE_CHECK == FALSE
PhoneRegexMax == 200

\* Language(code) for a code in Language.values, NONE for any other text
LanguageOf(code) ==
    CASE code = <<"e", "n">> -> "en"
      [] code = <<"n", "l">> -> "nl"
      [] code = <<"d", "e">> -> "de"
      [] OTHER -> NONE

\* guestLang as the handler normalises the vendor's Country
NormalLanguage(country) ==
    IF /\ country # NoneStr
       /\ Len(country) > 0
       /\ Lower(country) # <<"n", "u", "l", "l">>
       /\ LanguageOf(Lower(country)) # NONE
    THEN LanguageOf(Lower(country))
    ELSE NONE

\* re.fullmatch("^.{0,200}$", phone): at most 200 characters, none a newline
PhoneMatches(phone) ==
    /\ Len(phone) <= PhoneRegexMax
    /\ \A k \in DOMAIN phone : phone[k] # "\n"

\* guestPhone as the handler normalises the vendor's Phone
NormalPhone(phone) ==
    IF phone = NoneStr \/ ~PhoneMatches(phone) THEN <<>> ELSE phone

\* guestName as the handler normalises the vendor's Name
NormalName(name) == IF name = NoneStr THEN <<>> ELSE name

\* PMS_Apaleo.pmsStayStatusMap.get(status, Stay.Status.UNKNOWN)
pmsStayStatusMap(status) ==
    CASE status = <<"n", "o", "t", "_", "c", "o", "n", "f", "i", "r", "m", "e", "d">>
            -> "UNKNOWN"
      [] status = <<"b", "o", "o", "k", "e", "d">> -> "BEFORE"
      [] status = <<"i", "n", "_", "h", "o", "u", "s", "e">> -> "INSTAY"
      [] status = <<"c", "h", "e", "c", "k", "e", "d", "_", "o", "u", "t">> -> "AFTER"
      [] status = <<"c", "a", "n", "c", "e", "l", "l", "e", "d">> -> "CANCEL"
      [] status = <<"n", "o", "_", "s", "h", "o", "w">> -> "UNKNOWN"
      [] OTHER -> "UNKNOWN"

\* the hotel cross-check of a fetched reservation detail: the detail's text
\* holds "HotelId": "<canonical text of the payload's hotel UUID>"
DetailOfHotel(detail, pmsHotelId) == detail.HotelId = pmsHotelId

\* the fields of the Stay the handler writes (stayUpdate)
StayRow(reservationData, guest, pmsGuestId) ==
    [hotel |-> HotelLocalId,
     guest |-> guest,
     pms_reservation_id |-> reservationData.ReservationId,
     pms_guest_id |-> pmsGuestId,
     status |-> pmsStayStatusMap(Lower(reservationData.Status)),
     checkin |-> StrptimeDate(reservationData.CheckInDate),
     checkout |-> StrptimeDate(reservationData.CheckOutDate)]

\* the stay part with a create in place of update_or_create
StayUpsert_AlwaysCreate(ss, reservationData, guest, pmsGuestId) ==
    IF \/ reservationData.Status = NoneStr
       \/ StrptimeDate(reservationData.CheckInDate) = NoneDict
       \/ StrptimeDate(reservationData.CheckOutDate) = NoneDict
    THEN [stays |-> ss, upsert |-> FALSE]
    ELSE [stays |-> Append(ss, StayRow(reservationData, guest, pmsGuestId)),
          upsert |-> TRUE]

\* the stay part with the check-out date stored as it parsed, failed or not
StayUpsert_CheckoutUnchecked(ss, reservationData, guest, pmsGuestId) ==
    LET hits == {k \in DOMAIN ss :
                    ss[k].pms_reservation_id = reservationData.ReservationId}
        row == StayRow(reservationData, guest, pmsGuestId)
    IN  IF \/ reservationData.Status = NoneStr
           \/ StrptimeDate(reservationData.CheckInDate) = NoneDict
        THEN [stays |-> ss, upsert |-> FALSE]
        ELSE [stays |-> IF hits = {} THEN Append(ss, row)
                        ELSE [k \in DOMAIN ss |-> IF k \in hits THEN row ELSE ss[k]],
              upsert |-> TRUE]

\* the stay part with the Stay looked up by reservation id and guest together
StayUpsert_KeyedWithGuest(ss, reservationData, guest, pmsGuestId) ==
    LET hits == {k \in DOMAIN ss :
                    /\ ss[k].pms_reservation_id = reservationData.ReservationId
                    /\ ss[k].guest = guest}
        row == StayRow(reservationData, guest, pmsGuestId)
    IN  IF \/ reservationData.Status = NoneStr
           \/ StrptimeDate(reservationData.CheckInDate) = NoneDict
           \/ StrptimeDate(reservationData.CheckOutDate) = NoneDict
           \/ Cardinality(hits) > 1
        THEN [stays |-> ss, upsert |-> FALSE]
        ELSE [stays |-> IF hits = {} THEN Append(ss, row)
                        ELSE [k \in DOMAIN ss |-> IF k \in hits THEN row ELSE ss[k]],
              upsert |-> TRUE]

\* the stay part of one merge iteration (the second try block): the Stay table
\* afterwards, and whether update_or_create was reached and succeeded
StayUpsert(ss, reservationData, guest, pmsGuestId) ==
    LET checkin == StrptimeDate(reservationData.CheckInDate)
        checkout == StrptimeDate(reservationData.CheckOutDate)
        hits == {k \in DOMAIN ss :
                    ss[k].pms_reservation_id = reservationData.ReservationId}
    IN  IF \/ reservationData.Status = NoneStr
           \/ checkin = NoneDict \/ checkout = NoneDict
           \/ Cardinality(hits) > 1
        THEN [stays |-> ss, upsert |-> FALSE]
        ELSE LET row == StayRow(reservationData, guest, pmsGuestId)
             IN  [stays |-> IF hits = {} THEN Append(ss, row)
                            ELSE [k \in DOMAIN ss |->
                                     IF k \in hits THEN row ELSE ss[k]],
                  upsert |-> TRUE]

\* ------------------------------------------------------------ handle_webhook
UnboundId == -1                 \* the local "guest" before its first assignment
UnboundStr == <<"Unbound">>     \* the local "pmsGuestId" before its first assignment

\* the events a payload's Events list is made of
ReservationUpdated(rid) ==
    [Name |-> "ReservationUpdated", Value |-> [ReservationId |-> rid]]

EventKinds ==
    {ReservationUpdated(rid) :
        rid \in {<<"1">>, <<"2">>, <<"3">>, <<"4">>, <<"5">>, <<>>}}
    \cup {[Name |-> "ReservationCreated", Value |-> NoneDict],
          [Name |-> "ReservationUpdated", Value |-> NoneDict]}

EventLists == UNION {[1..n -> EventKinds] : n \in 0..MaxEvents}

\* the arguments handle_webhook is called with: None, and cleaned payloads for
\* the bound hotel or another one, whose data names a hotel UUID or something
\* that is no UUID, and holds an Events list or none
Payloads ==
    {NoneDict}
    \cup {[hotel_id |-> h, data |-> [HotelId |-> u, Events |-> ev]] :
            h \in {HotelLocalId, OtherLocalId},
            u \in {HotelUuidText, BadUuidText},
            ev \in EventLists \cup {NoneList}}

\* the scripts of a vendor endpoint over the attempts one fetch can make: it
\* raises APIError on the first k attempts, for each k up to all of them (what
\* it would do after its first success is never asked of it)
FetchScripts ==
    {[a \in 1..(RETRY + 1) |-> IF a <= k THEN "APIError" ELSE "ok"] :
        k \in 0..(RETRY + 1)}

Idle ==
    [pc |-> "idle", payload |-> NoneDict, pmsHotelId |-> NONE, i |-> 0,
     reservationUpdatesList |-> <<>>, j |-> 0, guest |-> UnboundId,
     pmsGuestId |-> UnboundStr, result |-> FALSE]

NoHistory ==
    [calls |-> 0, clean |-> TRUE, seeded |-> FALSE,
     start |-> [guests |-> <<>>, stays |-> <<>>], fetch |-> <<>>, merge |-> <<>>]

\* every vendor call of the call the history describes succeeded within the
\* retry budget
AllFetched(o) ==
    /\ \A k \in DOMAIN o.fetch : o.fetch[k].outcome # "APIError"
    /\ \A k \in DOMAIN o.merge : o.merge[k].guestFetch # "APIError"

\* "return <value>" from handle_webhook
Returned(h, value) == [h EXCEPT !.pc = "done", !.result = value]

\* the entry without the check of the hotel
Enter_NoHotelCheck(payload) ==
    LET h == [Idle EXCEPT !.payload = payload]
    IN  IF payload = NoneDict THEN Returned(h, FALSE)
        ELSE IF UuidCanonical(payload.data.HotelId) = NONE THEN Returned(h, FALSE)
        ELSE IF payload.data.Events = NoneList THEN Returned(h, FALSE)
        ELSE [h EXCEPT !.pc = "fetch", !.i = 1,
                       !.pmsHotelId = UuidCanonical(payload.data.HotelId)]

\* the entry of handle_webhook, up to the first loop: the checks of the payload
\* and of its hotel, and the parsing of the header fields
Enter(payload) ==
    LET h == [Idle EXCEPT !.payload = payload]
    IN  IF payload = NoneDict THEN Returned(h, FALSE)
        ELSE IF payload.hotel_id # HotelLocalId THEN Returned(h, FALSE)
        ELSE IF UuidCanonical(payload.data.HotelId) = NONE THEN Returned(h, FALSE)
        ELSE IF payload.data.Events = NoneList THEN Returned(h, FALSE)
        ELSE [h EXCEPT !.pc = "fetch", !.i = 1,
                       !.pmsHotelId = UuidCanonical(payload.data.HotelId)]

\* a call of handle_webhook begins
Begin(payload) ==
    /\ hw' = Enter(payload)
    /\ obs' = [obs EXCEPT
                 !.calls = @ + 1,
                 !.clean = @ /\ AllFetched(obs),
                 !.start = [guests |-> guests, stays |-> stays],
                 !.fetch = <<>>,
                 !.merge = <<>>]
    /\ UNCHANGED <<guests, stays, last, rc, cw, th>>

\* a webhook is delivered
Receive(payload) ==
    /\ hw.pc = "idle"
    /\ Begin(payload)

\* the same webhook is delivered a second time
Replay ==
    /\ hw.pc = "done"
    /\ obs.calls = 1
    /\ Begin(hw.payload)

\* every event passes for a reservation update
IsReservationUpdated_Any(event) == event.Name # ""

\* event.get("Name") == "ReservationUpdated"
IsReservationUpdated(event) == event.Name = "ReservationUpdated"

\* the APIError of a reservation fetch escapes to the outer handler
OnReservationApiError_Abort(h) == Returned(h, FALSE)

\* "except APIError" around the reservation fetch: print, and go on with the
\* next event
OnReservationApiError(h) == [h EXCEPT !.i = @ + 1]

\* one iteration of the loop over the events: the filter and the fetch of the
\* reservation's details
FetchEvent(script) ==
    /\ hw.pc = "fetch"
    /\ hw.i <= Len(hw.payload.data.Events)
    /\ LET event == hw.payload.data.Events[hw.i]
           eventValue == event.Value
           reservationId == eventValue.ReservationId
           call == api_call_retry(script, 0, RETRY)
           detail == VendorReservation(reservationId)
           note(outcome) ==
               [obs EXCEPT !.fetch = Append(@, [event |-> event, outcome |-> outcome])]
           next == [hw EXCEPT !.i = @ + 1]
       IN  IF ~IsReservationUpdated(event)
           THEN hw' = next /\ obs' = note("filtered")
           ELSE IF eventValue = NoneDict
           THEN hw' = Returned(hw, FALSE) /\ obs' = note("raised")
           ELSE IF reservationId = NoneStr \/ Len(reservationId) = 0
           THEN hw' = next /\ obs' = note("no id")
           ELSE IF call.ends # "ok"
           THEN hw' = OnReservationApiError(hw) /\ obs' = note("APIError")
           ELSE IF ~DetailOfHotel(detail, hw.pmsHotelId)
           THEN hw' = next /\ obs' = note("other hotel")
           ELSE /\ hw' = [next EXCEPT !.reservationUpdatesList = Append(@, detail)]
                /\ obs' = note("ok")
    /\ UNCHANGED <<guests, stays, last, rc, cw, th>>

\* after the loop over the events: return True when nothing was fetched
EndFetch ==
    /\ hw.pc = "fetch"
    /\ hw.i > Len(hw.payload.data.Events)
    /\ hw' = IF Len(hw.reservationUpdatesList) = 0
             THEN Returned(hw, TRUE)
             ELSE [hw EXCEPT !.pc = "merge", !.j = 1]
    /\ UNCHANGED <<guests, stays, obs, last, rc, cw, th>>

\* whether the handler of the guest fetch's APIError can print pmsGuestId
HandlerPrints(pmsGuestId) == pmsGuestId # UnboundStr

\* one iteration of the loop over the fetched reservations: the guest part
\* (fetch, normalise, resolve) and the stay part (map, parse, upsert)
MergeReservation(script) ==
    /\ hw.pc = "merge"
    /\ hw.j <= Len(hw.reservationUpdatesList)
    /\ LET reservationData == hw.reservationUpdatesList[hw.j]
           call == api_call_retry(script, 0, RETRY)
           guestObj == VendorGuest(reservationData.GuestId)
           resolved == check_and_resolve_phone_number(
                           guests, NormalPhone(guestObj.Phone),
                           NormalName(guestObj.Name),
                           NormalLanguage(guestObj.Country), NoId)
           fetched == call.ends = "ok"
           guest == IF fetched THEN resolved.guest ELSE hw.guest
           pmsGuestId == IF fetched THEN guestObj.GuestId ELSE hw.pmsGuestId
           guestsAfter == IF fetched THEN resolved.guests ELSE guests
           stay == StayUpsert(stays, reservationData, guest, pmsGuestId)
           note(upsert) ==
               [obs EXCEPT !.merge = Append(@,
                   [rid |-> reservationData.ReservationId,
                    guestFetch |-> IF fetched THEN "ok" ELSE "APIError",
                    upsert |-> upsert])]
       IN  IF ~fetched /\ ~HandlerPrints(hw.pmsGuestId)
           THEN /\ hw' = Returned(hw, FALSE)
                /\ obs' = note(FALSE)
                /\ UNCHANGED <<guests, stays>>
           ELSE /\ hw' = [hw EXCEPT !.j = @ + 1, !.guest = guest,
                                    !.pmsGuestId = pmsGuestId]
                /\ guests' = guestsAfter
                /\ stays' = stay.stays
                /\ obs' = note(stay.upsert)
    /\ UNCHANGED <<last, rc, cw, th>>

\* after the loop over the fetched reservations: return True
Return ==
    /\ hw.pc = "merge"
    /\ hw.j > Len(hw.reservationUpdatesList)
    /\ hw' = Returned(hw, TRUE)
    /\ UNCHANGED <<guests, stays, obs, last, rc, cw, th>>

\* the tables a webhook can find: empty, or holding a Guest with the phone one
\* of the vendor's guests has, and a Stay of that Guest for reservation 1
SeedGuests == <<[phone |-> <<"5">>, name |-> <<"Z", "e">>, language |-> NONE]>>
SeedStays ==
    <<[hotel |-> HotelLocalId, guest |-> 1, pms_reservation_id |-> <<"1">>,
       pms_guest_id |-> <<"z">>, status |-> "UNKNOWN",
       checkin |-> [year |-> 2022, month |-> 12, day |-> 31],
       checkout |-> [year |-> 2023, month |-> 1, day |-> 1]]>>

Init ==
    /\ \/ guests = <<>> /\ stays = <<>> /\ obs = NoHistory
       \/ /\ guests = SeedGuests
          /\ stays = SeedStays
          /\ obs = [NoHistory EXCEPT !.seeded = TRUE]
    /\ hw = Idle
    /\ last = NoCall
    /\ rc = NoCall
    /\ cw = NoCall
    /\ th = NoCall

Next ==
    \/ \E payload \in Payloads : Receive(payload)
    \/ Replay
    \/ \E script \in FetchScripts : FetchEvent(script)
    \/ EndFetch
    \/ \E script \in FetchScripts : MergeReservation(script)
    \/ Return

Spec == Init /\ [][Next]_vars

\* ------------------------------------ webhooks delivered one after the other
\* the payloads of a sequence of deliveries: cleaned payloads for the bound
\* hotel whose events name the same reservations again, alone, twice in one
\* list, and beside others
DeliveryEvents ==
    {<<ReservationUpdated(<<"1">>)>>,
     <<ReservationUpdated(<<"2">>)>>,
     <<ReservationUpdated(<<"1">>), ReservationUpdated(<<"1">>)>>,
     <<ReservationUpdated(<<"2">>), ReservationUpdated(<<"1">>)>>,
     <<ReservationUpdated(<<"1">>), ReservationUpdated(<<"2">>)>>,
     <<ReservationUpdated(<<"4">>), ReservationUpdated(<<"1">>)>>}

DeliveryPayloads ==
    {[hotel_id |-> HotelLocalId, data |-> [HotelId |-> HotelUuidText, Events |-> ev]] :
        ev \in DeliveryEvents}

\* a webhook is delivered once the call for the one before it has returned
Deliver(payload) ==
    /\ hw.pc \in {"idle", "done"}
    /\ obs.calls < MaxCalls
    /\ Begin(payload)

DeliveriesNext ==
    \/ \E payload \in DeliveryPayloads : Deliver(payload)
    \/ \E script \in FetchScripts : FetchEvent(script)
    \/ EndFetch
    \/ \E script \in FetchScripts : MergeReservation(script)
    \/ Return

SpecDeliveries == Init /\ [][DeliveriesNext]_vars

\* ------------------------------------------- the resolver called directly
\* candidates handed to the resolver: a bare phone and the same phone already
\* carrying the suffix; names differing only in case and padding, and a
\* different name; a language and none
CandidatePhones == {<<"5">>, <<"5", "_", "-", "1">>}
CandidateNames == {<<"A", "n">>, <<" ", "a", "N">>, <<"B", "o">>}
CandidateLangs == {NONE, "nl"}

ResolveInit ==
    /\ guests = <<>>
    /\ stays = <<>>
    /\ hw = Idle
    /\ obs = NoHistory
    /\ last = NoCall
    /\ rc = NoCall
    /\ cw = NoCall
    /\ th = NoCall

\* one top-level call check_and_resolve_phone_number(P, N, L)
Resolve(P, N, L) ==
    LET r == check_and_resolve_phone_number(guests, P, N, L, NoId)
    IN  /\ Len(guests) < MaxGuests
        /\ guests' = r.guests
        /\ last' = [phone |-> P, name |-> N, language |-> L, before |-> guests,
                    guest |-> r.guest, result |-> r.result, calls |-> r.calls,
                    lookups |-> r.lookups]
        /\ UNCHANGED <<stays, hw, obs, rc, cw, th>>

ResolveNext ==
    \E P \in CandidatePhones, N \in CandidateNames, L \in CandidateLangs :
        Resolve(P, N, L)

SpecResolve == ResolveInit /\ [][ResolveNext]_vars

\* ---------------------------------------- two resolver calls at the same time
\* Two webhook deliveries run check_and_resolve_phone_number at the same time
\* on the same phone.  Each query of the Guest table (the lookup, the update,
\* the create) is one step; nothing ties the queries of a call together.
Threads == {1, 2}

ConcurrentPhone == <<"5">>

\* the tables the two calls can find: none or one Guest with that phone
ConcurrentStores ==
    {<<>>,
     <<[phone |-> ConcurrentPhone, name |-> <<"A", "n">>, language |-> NONE]>>,
     <<[phone |-> ConcurrentPhone, name |-> <<"B", "o">>, language |-> NONE]>>}

\* a call at its entry: guestPhone, guestName, guestLang, guestId = None
Activation(P, N, L) ==
    [pc |-> "lookup", phone |-> P, name |-> N, language |-> L, guestId |-> NoId,
     guest |-> NoId, result |-> RESULT_NONE,
     candidate |-> [phone |-> P, name |-> N, language |-> L]]

ConcurrentInit ==
    /\ guests \in ConcurrentStores
    /\ stays = <<>>
    /\ hw = Idle
    /\ obs = NoHistory
    /\ last = NoCall
    /\ rc = NoCall
    /\ cw = NoCall
    /\ \E N1 \in CandidateNames, L1 \in CandidateLangs,
          N2 \in CandidateNames, L2 \in CandidateLangs :
          th = [start |-> guests,
                of |-> <<Activation(ConcurrentPhone, N1, L1),
                         Activation(ConcurrentPhone, N2, L2)>>]

\* "dbGuest = Guest.objects.filter(phone=guestPhone).first()" and the tests
\* that follow it, up to the next query or the return
Lookup(t) ==
    LET a == th.of[t]
        dbGuest == GuestFirstByPhone(guests, a.phone)
    IN  /\ a.pc = "lookup"
        /\ th' = [th EXCEPT !.of[t] =
                     IF dbGuest # NoId
                     THEN IF DifferentGuest(guests[dbGuest], a.name, a.language)
                          THEN [a EXCEPT !.phone = DuplicatePhone(a.phone),
                                         !.guestId = IF MODE = UPDATE_MODE_CREATE
                                                     THEN NoId ELSE dbGuest]
                          ELSE [a EXCEPT !.pc = "done", !.guest = dbGuest,
                                         !.result = RESULT_NONE]
                     ELSE IF MODE = UPDATE_MODE_UPDATE /\ a.guestId # NoId
                     THEN [a EXCEPT !.pc = "update"]
                     ELSE [a EXCEPT !.pc = "create"]]
        /\ UNCHANGED <<guests, stays, hw, obs, last, rc, cw>>

\* "Guest.objects.filter(id=guestId).update(phone=guestPhone)"
Relocate(t) ==
    LET a == th.of[t]
    IN  /\ a.pc = "update"
        /\ guests' = GuestUpdatePhone(guests, a.guestId, a.phone)
        /\ th' = [th EXCEPT !.of[t].pc = "create beside"]
        /\ UNCHANGED <<stays, hw, obs, last, rc, cw>>

\* "Guest.objects.create(name=guestName, phone=guestPhone.replace(...), ...)"
\* after the update, and the return
CreateBeside(t) ==
    LET a == th.of[t]
        created == GuestCreate(guests, a.name, RelocatedCreatePhone(a.phone),
                               a.language)
    IN  /\ a.pc = "create beside"
        /\ guests' = created
        /\ th' = [th EXCEPT !.of[t] = [a EXCEPT !.pc = "done",
                                                !.guest = Len(created),
                                                !.result = RESULT_UPDATE]]
        /\ UNCHANGED <<stays, hw, obs, last, rc, cw>>

\* "Guest.objects.create(name=guestName, phone=guestPhone, ...)" when the phone
\* was not found and no Guest is to be relocated, and the return
CreateNew(t) ==
    LET a == th.of[t]
        created == GuestCreate(guests, a.name, a.phone, a.language)
    IN  /\ a.pc = "create"
        /\ guests' = created
        /\ th' = [th EXCEPT !.of[t] = [a EXCEPT !.pc = "done",
                                                !.guest = Len(created),
                                                !.result = RESULT_CREATE]]
        /\ UNCHANGED <<stays, hw, obs, last, rc, cw>>

ConcurrentNext ==
    \E t \in Threads :
        \/ Lookup(t)
        \/ Relocate(t)
        \/ CreateBeside(t)
        \/ CreateNew(t)

SpecConcurrent == ConcurrentInit /\ [][ConcurrentNext]_vars

\* ------------------------------------- a resolver call on a failing store
\* One call of check_and_resolve_phone_number, query by query, on a store whose
\* queries can fail.  The tables the call can find: those of two calls at the
\* same time, and one where an earlier conflict has relocated a Guest.
FailingStores ==
    ConcurrentStores
    \cup {<<[phone |-> DuplicatePhone(ConcurrentPhone), name |-> <<"A", "n">>,
             language |-> NONE],
            [phone |-> ConcurrentPhone, name |-> <<"B", "o">>, language |-> NONE]>>}

FailingInit ==
    /\ guests \in FailingStores
    /\ stays = <<>>
    /\ hw = Idle
    /\ obs = NoHistory
    /\ last = NoCall
    /\ rc = NoCall
    /\ cw = NoCall
    /\ \E P \in CandidatePhones, N \in CandidateNames, L \in CandidateLangs :
          th = [start |-> guests, of |-> <<Activation(P, N, L)>>]

\* the query the call is about to make raises: "except Exception" prints and
\* returns None, RESULTS["none"], through every activation of the recursion
QueryFails(t) ==
    LET a == th.of[t]
    IN  /\ a.pc \in {"lookup", "update", "create beside", "create"}
        /\ th' = [th EXCEPT !.of[t] = [a EXCEPT !.pc = "done", !.guest = NoId,
                                                !.result = RESULT_NONE]]
        /\ UNCHANGED <<guests, stays, hw, obs, last, rc, cw>>

FailingNext ==
    \/ Lookup(1)
    \/ Relocate(1)
    \/ CreateBeside(1)
    \/ CreateNew(1)
    \/ QueryFails(1)

SpecFailing == FailingInit /\ [][FailingNext]_vars

\* ------------------------------------------ api_call_retry called directly
RetryInit == ResolveInit

\* one call api_call_retry(fn, arg, retry, wait) against a function whose
\* successive invocations end as the script says
CallRetry(retry, script) ==
    LET r == api_call_retry(script, 0, retry)
    IN  /\ rc' = [phone |-> <<>>, retry |-> retry, script |-> script,
                  ends |-> r.ends, invocations |-> r.invocations,
                  trace |-> r.trace]
        /\ UNCHANGED <<guests, stays, hw, obs, last, cw, th>>

RetryNext ==
    \E retry \in 0..MaxRetry, script \in [1..(MaxRetry + 1) -> FnOutcomes] :
        CallRetry(retry, script)

SpecRetry == RetryInit /\ [][RetryNext]_vars

\* ---------------------------------------------------- clean_webhook_payload
\* A raw payload is None, a str or a bytes object.  Its text is a sequence of
\* JSON lexical tokens written without blanks: q tells a string literal (s is
\* the text between its quotes) from punctuation, literals and anything else.
Tok(q, s) == [q |-> q, s |-> s]
Quoted(s) == Tok(TRUE, s)
Bare(s) == Tok(FALSE, s)

NumberTexts == {"1", "5"}

\* len(payload): the characters of the tokens, a string literal with its quotes
RECURSIVE PayloadLen(_)
PayloadLen(tokens) ==
    IF tokens = <<>> THEN 0
    ELSE Len(Head(tokens).s) + (IF Head(tokens).q THEN 2 ELSE 0)
            + PayloadLen(Tail(tokens))

\* "HotelId" in payload, for a str payload (no token of the model holds the
\* word as a proper part, and it never straddles two tokens)
MentionsHotelId(tokens) == \E k \in DOMAIN tokens : tokens[k].s = "HotelId"

\* the values json.loads builds
JsonNull == [t |-> "null", s |-> "", keys |-> <<>>, items |-> <<>>]
JsonStr(s) == [t |-> "str", s |-> s, keys |-> <<>>, items |-> <<>>]
JsonNum(s) == [t |-> "num", s |-> s, keys |-> <<>>, items |-> <<>>]
JsonList(items) == [t |-> "list", s |-> "", keys |-> <<>>, items |-> items]
JsonDict(keys, items) == [t |-> "dict", s |-> "", keys |-> keys, items |-> items]

\* d[key] = value on a dict under construction: a repeated key keeps its place
\* and takes the later value
DictPut(d, key, value) ==
    LET at == {k \in DOMAIN d.keys : d.keys[k] = key}
    IN  IF at = {} THEN JsonDict(Append(d.keys, key), Append(d.items, value))
        ELSE JsonDict(d.keys, [k \in DOMAIN d.items |->
                                   IF k \in at THEN value ELSE d.items[k]])

\* d.get(key): the value, or None (here JsonNull) when the key is absent
DictGet(d, key) ==
    LET at == {k \in DOMAIN d.keys : d.keys[k] = key}
    IN  IF at = {} THEN JsonNull ELSE d.items[CHOOSE k \in at : TRUE]

ParseFailed == [ok |-> FALSE, val |-> JsonNull, next |-> 0]
Parsed(val, next) == [ok |-> TRUE, val |-> val, next |-> next]

\* the JSON value that starts at token i, and the token after it
RECURSIVE ParseValue(_, _)
RECURSIVE ParseMembers(_, _, _)
RECURSIVE ParseElements(_, _, _)
ParseValue(tokens, i) ==
    IF i > Len(tokens) THEN ParseFailed
    ELSE LET tok == tokens[i]
         IN  IF tok.q THEN Parsed(JsonStr(tok.s), i + 1)
             ELSE IF tok.s = "null" THEN Parsed(JsonNull, i + 1)
             ELSE IF tok.s \in NumberTexts THEN Parsed(JsonNum(tok.s), i + 1)
             ELSE IF tok.s = "{"
             THEN IF i + 1 <= Len(tokens) /\ tokens[i + 1] = Bare("}")
                  THEN Parsed(JsonDict(<<>>, <<>>), i + 2)
                  ELSE ParseMembers(tokens, i + 1, JsonDict(<<>>, <<>>))
             ELSE IF tok.s = "["
             THEN IF i + 1 <= Len(tokens) /\ tokens[i + 1] = Bare("]")
                  THEN Parsed(JsonList(<<>>), i + 2)
                  ELSE ParseElements(tokens, i + 1, <<>>)
             ELSE ParseFailed

\* the members of an object from token i on: "key": value, then "," or "}"
ParseMembers(tokens, i, d) ==
    IF i + 1 > Len(tokens) \/ ~tokens[i].q \/ tokens[i + 1] # Bare(":")
    THEN ParseFailed
    ELSE LET v == ParseValue(tokens, i + 2)
         IN  IF ~v.ok \/ v.next > Len(tokens) THEN ParseFailed
             ELSE IF tokens[v.next] = Bare("}")
             THEN Parsed(DictPut(d, tokens[i].s, v.val), v.next + 1)
             ELSE IF tokens[v.next] = Bare(",")
             THEN ParseMembers(tokens, v.next + 1, DictPut(d, tokens[i].s, v.val))
             ELSE ParseFailed

\* the elements of an array from token i on: value, then "," or "]"
ParseElements(tokens, i, items) ==
    LET v == ParseValue(tokens, i)
    IN  IF ~v.ok \/ v.next > Len(tokens) THEN ParseFailed
        ELSE IF tokens[v.next] = Bare("]")
        THEN Parsed(JsonList(Append(items, v.val)), v.next + 1)
        ELSE IF tokens[v.next] = Bare(",")
        THEN ParseElements(tokens, v.next + 1, Append(items, v.val))
        ELSE ParseFailed

\* json.loads(text): ok and the value, or not ok when it raises JSONDecodeError
Loads(tokens) ==
    LET r == ParseValue(tokens, 1)
    IN  IF r.ok /\ r.next = Len(tokens) + 1 THEN r ELSE ParseFailed

\* the Hotel table (the bound hotel and another one)
Hotels ==
    <<[id |-> HotelLocalId, pms_hotel_id |-> HotelUuidText],
      [id |-> OtherLocalId, pms_hotel_id |-> OtherUuidText]>>

\* Hotel.objects.filter(pms_hotel_id=pmsHotelUuid).first()
HotelFirstByUuid(uuid) ==
    LET hits == {k \in DOMAIN Hotels : Hotels[k].pms_hotel_id = uuid}
    IN  IF hits = {} THEN NoId
        ELSE CHOOSE k \in hits : \A l \in hits : k <= l

\* the parsed object without one of its keys
DictWithout(d, key) ==
    LET keep == {k \in DOMAIN d.keys : d.keys[k] # key}
        RECURSIVE Pick(_, _)
        Pick(seq, k) ==
            IF k > Len(seq) THEN <<>>
            ELSE (IF k \in keep THEN <<seq[k]>> ELSE <<>>) \o Pick(seq, k + 1)
    IN  JsonDict(Pick(d.keys, 1), Pick(d.items, 1))

\* a cleaned payload whose data lost the hotel identifier
CleanedPayload_Stripped(hotelId, load) ==
    [hotel_id |-> hotelId, data |-> DictWithout(load, "HotelId")]

\* cleanedPayload = { 'hotel_id': hotelId, 'data': load }
CleanedPayload(hotelId, load) == [hotel_id |-> hotelId, data |-> load]

CleanReturns(value) == [ends |-> "return", value |-> value]
CleanRaises == [ends |-> "raise", value |-> NoneDict]

\* PMS_Apaleo.clean_webhook_payload(payload): how the call ends, and the value
\* it returns
clean_webhook_payload(payload) ==
    IF payload.kind = "None" \/ PayloadLen(payload.tokens) <= 2
    THEN CleanReturns(NoneDict)
    ELSE IF payload.kind = "bytes"
    THEN CleanRaises    \* "HotelId" not in <bytes>: TypeError, outside the try
    ELSE IF ~MentionsHotelId(payload.tokens) THEN CleanReturns(NoneDict)
    ELSE LET load == Loads(payload.tokens)
         IN  IF ~load.ok THEN CleanReturns(NoneDict)             \* JSONDecodeError
             ELSE IF load.val.t # "dict" THEN CleanReturns(NoneDict)  \* no .get
             ELSE LET pms_hotelId == DictGet(load.val, "HotelId")
                  IN  IF pms_hotelId.t # "str" THEN CleanReturns(NoneDict)
                      ELSE IF UuidCanonical(pms_hotelId.s) = NONE
                      THEN CleanReturns(NoneDict)                \* ValueError
                      ELSE LET hotel == HotelFirstByUuid(UuidCanonical(pms_hotelId.s))
                           IN  IF hotel = NoId THEN CleanReturns(NoneDict)
                               ELSE CleanReturns(
                                        CleanedPayload(Hotels[hotel].id, load.val))

\* the texts a webhook body is made of: objects of no, one or two members,
\* whole or cut short before the closing brace, and a few texts that are no
\* object
HotelIdTexts ==
    {HotelUuidText, HotelUuidUpper, OtherUuidText, UnknownUuidText, BadUuidText}

EventsText ==
    <<Bare("["), Bare("{"), Quoted("Name"), Bare(":"), Quoted("ReservationUpdated"),
      Bare(","), Quoted("Value"), Bare(":"), Bare("{"), Quoted("ReservationId"),
      Bare(":"), Quoted("1"), Bare("}"), Bare("}"), Bare("]")>>

Members ==
    {<<Quoted("HotelId"), Bare(":"), Quoted(u)>> : u \in HotelIdTexts}
    \cup {<<Quoted("HotelId"), Bare(":"), Bare(x)>> : x \in {"null", "5"}}
    \cup {<<Quoted("Events"), Bare(":")>> \o EventsText,
          <<Quoted("Events"), Bare(":"), Bare("["), Bare("]")>>,
          <<Quoted("Inner"), Bare(":"), Bare("{"), Quoted("HotelId"), Bare(":"),
            Quoted(HotelUuidText), Bare("}")>>}

RECURSIVE JoinMembers(_)
JoinMembers(ms) ==
    IF ms = <<>> THEN <<>>
    ELSE IF Len(ms) = 1 THEN Head(ms)
    ELSE Head(ms) \o <<Bare(",")>> \o JoinMembers(Tail(ms))

MemberLists ==
    {<<>>}
    \cup {<<m>> : m \in Members}
    \cup {<<m, n>> : m \in Members, n \in Members}

ObjectTexts ==
    {<<Bare("{")>> \o JoinMembers(ms) \o <<Bare("}")>> : ms \in MemberLists}

PayloadTexts ==
    ObjectTexts
    \cup {SubSeq(t, 1, Len(t) - 1) : t \in ObjectTexts}
    \cup {<<>>,
          <<Bare("xx")>>,
          <<Bare("no"), Bare("HotelId")>>,
          <<Quoted("HotelId")>>,
          <<Bare("["), Quoted("HotelId"), Bare("]")>>}

RawPayloads ==
    {[kind |-> "None", tokens |-> <<>>]}
    \cup {[kind |-> k, tokens |-> t] : k \in {"str", "bytes"}, t \in PayloadTexts}

\* the tables are those a webhook can find
CleanInit == Init

\* one call PMS_Apaleo.clean_webhook_payload(payload)
Clean(payload) ==
    LET r == clean_webhook_payload(payload)
    IN  /\ cw' = [phone |-> <<>>, payload |-> payload, ends |-> r.ends,
                  value |-> r.value,
                  before |-> [guests |-> guests, stays |-> stays]]
        /\ UNCHANGED <<guests, stays, hw, obs, last, rc, th>>

CleanNext == \E payload \in RawPayloads : Clean(payload)

SpecClean == CleanInit /\ [][CleanNext]_vars

\* ---------------------------------------------- claims: handle_webhook
Done == hw.pc = "done"
Entered == hw.pc # "idle"

\* the payload is a cleaned payload for the bound hotel: its data names a hotel
\* UUID and holds an Events list
Canonical(p) ==
    /\ p # NoneDict
    /\ p.hotel_id = HotelLocalId
    /\ UuidCanonical(p.data.HotelId) # NONE
    /\ p.data.Events # NoneList

\* ... and each of its ReservationUpdated events carries a Value object
WellFormed(p) ==
    /\ Canonical(p)
    /\ \A k \in DOMAIN p.data.Events :
          p.data.Events[k].Name = "ReservationUpdated"
              => p.data.Events[k].Value # NoneDict

\* the vendor's detail of a reservation is one the handler can merge: it is of
\* the payload's hotel, it has a status, and its dates parse
Mergeable(detail, p) ==
    /\ detail.HotelId = UuidCanonical(p.data.HotelId)
    /\ detail.Status # NoneStr
    /\ StrptimeDate(detail.CheckInDate) # NoneDict
    /\ StrptimeDate(detail.CheckOutDate) # NoneDict

\* the phone the handler hands to the resolver for a reservation's guest
PhoneOf(rid) == NormalPhone(VendorGuest(VendorReservation(rid).GuestId).Phone)

\* the payload holds n ReservationUpdated events, for n different reservations
\* that can be merged and whose guests have pairwise different phones
Independent(p) ==
    /\ WellFormed(p)
    /\ \A k \in DOMAIN p.data.Events :
          LET e == p.data.Events[k]
          IN  /\ e.Name = "ReservationUpdated"
              /\ e.Value.ReservationId \notin {NoneStr, <<>>}
              /\ Mergeable(VendorReservation(e.Value.ReservationId), p)
    /\ \A k, l \in DOMAIN p.data.Events :
          k # l =>
            /\ p.data.Events[k].Value.ReservationId
                  # p.data.Events[l].Value.ReservationId
            /\ PhoneOf(p.data.Events[k].Value.ReservationId)
                  # PhoneOf(p.data.Events[l].Value.ReservationId)

\* the rows of a Stay table for one reservation id
StayRows(ss, rid) == {k \in DOMAIN ss : ss[k].pms_reservation_id = rid}

HotelStays == {k \in DOMAIN stays : stays[k].hotel = HotelLocalId}

GuestFetchesOk == \A k \in DOMAIN obs.merge : obs.merge[k].guestFetch = "ok"

Unwritten ==
    /\ guests = obs.start.guests
    /\ stays = obs.start.stays

\* C1: from empty tables, a webhook of n ReservationUpdated events for n
\* different mergeable reservations whose guests have pairwise different
\* (normalised) phones, every vendor call succeeding within the retry budget,
\* returns True and leaves exactly n Stay rows of the hotel and n Guest rows;
\* delivered a second time it returns True and leaves both tables as they were.
C1_PipelineIdempotent ==
    (Done /\ ~obs.seeded /\ Independent(hw.payload) /\ obs.clean /\ AllFetched(obs))
    => /\ hw.result = TRUE
       /\ Cardinality(HotelStays) = Len(hw.payload.data.Events)
       /\ Len(stays) = Len(hw.payload.data.Events)
       /\ Len(guests) = Len(hw.payload.data.Events)
       /\ obs.calls = 2 => Unwritten

\* C1 witness: the second delivery of a webhook of at least two such events
\* has returned
C1_Witness ==
    /\ Done /\ ~obs.seeded /\ Independent(hw.payload) /\ obs.clean /\ AllFetched(obs)
    /\ obs.calls = 2
    /\ Len(hw.payload.data.Events) >= 2
    /\ Len(guests) = Len(hw.payload.data.Events)
    /\ hw.result = TRUE

\* C2: when the guest fetch of a reservation fails on every attempt, no Stay row
\* is created or updated for that reservation and handle_webhook returns True,
\* wherever the reservation stands in the batch.
C2_GuestFetchFailureSkips ==
    (Done /\ WellFormed(hw.payload))
    => \A k \in DOMAIN obs.merge :
          obs.merge[k].guestFetch = "APIError"
              => (hw.result = TRUE /\ ~obs.merge[k].upsert)

\* the reservation ids of the events whose detail was fetched and kept
RECURSIVE KeptIds(_)
KeptIds(fetch) ==
    IF fetch = <<>> THEN <<>>
    ELSE IF Head(fetch).outcome = "ok"
         THEN <<Head(fetch).event.Value.ReservationId>> \o KeptIds(Tail(fetch))
         ELSE KeptIds(Tail(fetch))

MergedIds == [k \in DOMAIN obs.merge |-> obs.merge[k].rid]

\* the reservation ids whose every fetch of this call failed
FailedIds ==
    {obs.fetch[k].event.Value.ReservationId :
        k \in {l \in DOMAIN obs.fetch : obs.fetch[l].outcome = "APIError"}}
    \ {obs.fetch[k].event.Value.ReservationId :
        k \in {l \in DOMAIN obs.fetch : obs.fetch[l].outcome = "ok"}}

\* C3: when the reservation fetch of an event fails on every attempt (the
\* payload being well formed and every guest fetch succeeding), the
\* reservation is never merged and its Stay rows are as before, every event
\* whose fetch succeeded is merged, in order, each with a Stay row when its
\* detail can be merged, and handle_webhook returns True.
C3_ReservationFetchFailureSkips ==
    (Done /\ WellFormed(hw.payload) /\ GuestFetchesOk /\ FailedIds # {})
    => /\ hw.result = TRUE
       /\ MergedIds = KeptIds(obs.fetch)
       /\ \A rid \in FailedIds :
             /\ \A k \in DOMAIN obs.merge : obs.merge[k].rid # rid
             /\ \A k \in DOMAIN stays :
                   stays[k].pms_reservation_id = rid
                       => (k \in DOMAIN obs.start.stays /\ obs.start.stays[k] = stays[k])
             /\ StayRows(stays, rid) = StayRows(obs.start.stays, rid)
       /\ \A k \in DOMAIN obs.merge :
             Mergeable(VendorReservation(obs.merge[k].rid), hw.payload)
                 => (obs.merge[k].upsert /\ StayRows(stays, obs.merge[k].rid) # {})

\* C3 witness: the first event's fetch failed on every attempt and a later
\* event was merged into tables that already held rows
C3_Witness ==
    /\ Done /\ WellFormed(hw.payload) /\ GuestFetchesOk
    /\ Len(obs.fetch) >= 2
    /\ obs.fetch[1].outcome = "APIError"
    /\ obs.fetch[1].event.Value.ReservationId \in FailedIds
    /\ Len(obs.merge) >= 1
    /\ obs.merge[1].upsert
    /\ obs.seeded
    /\ hw.result = TRUE

\* ---------------------------------------------- claims: api_call_retry
Retried == rc.phone # NoneStr

\* the number of leading invocations of the latest call's function that raise
\* APIError
RECURSIVE LeadingFailures(_, _)
LeadingFailures(script, k) ==
    IF k <= Len(script) /\ script[k] = "APIError"
    THEN 1 + LeadingFailures(script, k + 1)
    ELSE 0

\* C4: when the function raises APIError on its first k invocations and returns
\* on invocation k + 1, with k <= retry, the call returns after exactly k + 1
\* invocations; when it raises APIError on every invocation, it is invoked
\* exactly retry + 1 times and the call ends with APIError.
C4_BoundedAttempts ==
    Retried =>
        LET k == LeadingFailures(rc.script, 1)
        IN  /\ (k <= rc.retry /\ rc.script[k + 1] = "ok")
                => (rc.ends = "ok" /\ rc.invocations = k + 1)
            /\ (k > rc.retry)
                => (rc.ends = "APIError" /\ rc.invocations = rc.retry + 1)

\* C4 witness: two failures, then a success, accepted with retry budget 3
C4_Witness ==
    /\ Retried /\ rc.retry = 3
    /\ LeadingFailures(rc.script, 1) = 2
    /\ rc.ends = "ok" /\ rc.invocations = 3

\* C5: a payload whose hotel_id is not the bound hotel's id makes
\* handle_webhook return False at once: no Guest or Stay row is created or
\* changed, and no event is looked at, so no vendor call is made.
C5_HotelMismatchRejected ==
    (Entered /\ hw.payload # NoneDict /\ hw.payload.hotel_id # HotelLocalId)
    => /\ Done
       /\ hw.result = FALSE
       /\ Unwritten
       /\ obs.fetch = <<>>
       /\ obs.merge = <<>>

\* C5 witness: a payload of another hotel with a ReservationUpdated event for a
\* known reservation was rejected, the tables holding rows
C5_Witness ==
    /\ Done /\ hw.payload # NoneDict /\ hw.payload.hotel_id # HotelLocalId
    /\ hw.payload.data.HotelId = HotelUuidText
    /\ hw.payload.data.Events # NoneList
    /\ \E k \in DOMAIN hw.payload.data.Events :
          hw.payload.data.Events[k] = ReservationUpdated(<<"1">>)
    /\ obs.seeded
    /\ hw.result = FALSE

NoReservationUpdated(p) ==
    \A k \in DOMAIN p.data.Events : p.data.Events[k].Name # "ReservationUpdated"

\* C6: a cleaned payload for the bound hotel whose Events list holds no event
\* named ReservationUpdated (none at all, or only others) never writes a Guest
\* or Stay row, never calls the vendor, and returns True.
C6_NoReservationUpdatedNoWrite ==
    (Entered /\ Canonical(hw.payload) /\ NoReservationUpdated(hw.payload))
    => /\ Unwritten
       /\ \A k \in DOMAIN obs.fetch : obs.fetch[k].outcome = "filtered"
       /\ obs.merge = <<>>
       /\ Done => hw.result = TRUE

\* C6 witness: a payload holding only events of another name has returned
C6_Witness ==
    /\ Done /\ Canonical(hw.payload) /\ NoReservationUpdated(hw.payload)
    /\ Len(hw.payload.data.Events) >= 2
    /\ obs.seeded
    /\ hw.result = TRUE

\* the vendor's detail of the reservation has a date the parser rejects
DateRejected(rid) ==
    \/ StrptimeDate(VendorReservation(rid).CheckInDate) = NoneDict
    \/ StrptimeDate(VendorReservation(rid).CheckOutDate) = NoneDict

\* the vendor's detail of the reservation has a date not in the form YYYY-MM-DD
DateNotYYYYMMDD(rid) ==
    \/ ~IsYYYYMMDD(VendorReservation(rid).CheckInDate)
    \/ ~IsYYYYMMDD(VendorReservation(rid).CheckOutDate)

\* C7 as stated: a fetched reservation with a date that is not in the form
\* YYYY-MM-DD gets no Stay row created or updated.
C7_NotYYYYMMDDSkipped ==
    (Done /\ WellFormed(hw.payload) /\ GuestFetchesOk)
    => \A k \in DOMAIN obs.merge :
          DateNotYYYYMMDD(obs.merge[k].rid) => ~obs.merge[k].upsert

\* C7 amended: a fetched reservation with a date that strptime("%Y-%m-%d")
\* rejects gets no Stay row created or updated (its Stay rows are as before);
\* the other reservations of the batch are still merged, each with a Stay row
\* when its detail can be merged, and handle_webhook returns True (the payload
\* being well formed and every guest fetch succeeding).
C7_RejectedDateSkipped ==
    (Done /\ WellFormed(hw.payload) /\ GuestFetchesOk)
    => /\ MergedIds = KeptIds(obs.fetch)
       /\ \A k \in DOMAIN obs.merge :
             LET rid == obs.merge[k].rid
             IN  IF DateRejected(rid)
                 THEN /\ ~obs.merge[k].upsert
                      /\ StayRows(stays, rid) = StayRows(obs.start.stays, rid)
                      /\ \A r \in StayRows(stays, rid) : stays[r] = obs.start.stays[r]
                 ELSE /\ obs.merge[k].upsert
                      /\ \E r \in StayRows(stays, rid) :
                            /\ stays[r].checkin
                                  = StrptimeDate(VendorReservation(rid).CheckInDate)
                            /\ stays[r].checkout
                                  = StrptimeDate(VendorReservation(rid).CheckOutDate)
       /\ hw.result = TRUE

\* C7 witness: the first reservation of a batch had a rejected date and was
\* skipped, and the next one was merged
C7_Witness ==
    /\ Done /\ WellFormed(hw.payload) /\ GuestFetchesOk
    /\ Len(obs.merge) >= 2
    /\ DateRejected(obs.merge[1].rid) /\ ~obs.merge[1].upsert
    /\ ~DateRejected(obs.merge[2].rid) /\ obs.merge[2].upsert
    /\ hw.result = TRUE

\* ------------------------------ claims: check_and_resolve_phone_number
Called == last.phone # NoneStr

\* the Guest the lookup by phone found before the latest call, or NoId
Incumbent == GuestFirstByPhone(last.before, last.phone)

\* a row of the table before the latest call that has the candidate's phone and
\* the candidate's name (trimmed, case-insensitive) and language
SameIdentityRows ==
    {i \in DOMAIN last.before :
        /\ last.before[i].phone = last.phone
        /\ ~DifferentGuest(last.before[i], last.name, last.language)}

Candidate == [phone |-> last.phone, name |-> last.name, language |-> last.language]

\* C8: a call (P, N2, L2) on a store whose Guest with phone P has another name or
\* language moves that Guest to P + suffix and appends a Guest (P, N2, L2), and
\* returns the new Guest; every other row is as before.
C8_RelocateAndCreate ==
    (Called /\ Incumbent # NoId
        /\ DifferentGuest(last.before[Incumbent], last.name, last.language))
    => /\ guests = Append(GuestUpdatePhone(last.before, Incumbent,
                                           last.phone \o DUPLICATE_PHONE_SUFFIX),
                          Candidate)
       /\ last.guest = Len(guests)

\* C9: a call (P, N, L) on a store holding a Guest with phone P and the same
\* name and language returns such a Guest and leaves the table as it was.
C9_SameGuestNoWrite ==
    (Called /\ SameIdentityRows # {})
    => /\ guests = last.before
       /\ last.guest \in SameIdentityRows
       /\ last.result = RESULT_NONE

\* C10: a call (P, N, L) on a store with no Guest of phone P appends exactly one
\* Guest (P, N, L), returns it, and leaves every other row as it was.
C10_CreateWhenAbsent ==
    (Called /\ Incumbent = NoId)
    => /\ guests = Append(last.before, Candidate)
       /\ last.guest = Len(guests)
       /\ last.result = RESULT_CREATE

\* C10 witness: the phone was absent from a table that already held other Guests
C10_Witness ==
    /\ Called /\ Incumbent = NoId
    /\ Len(last.before) >= 2
    /\ Len(guests) = Len(last.before) + 1

\* ---------------------------------------- claims: clean_webhook_payload
Cleaned == cw.phone # NoneStr

\* the payload's text is a JSON object whose HotelId is a string that reads as
\* the UUID of a local Hotel
ValidPayload(payload) ==
    LET load == Loads(payload.tokens)
    IN  /\ payload.kind # "None"
        /\ load.ok
        /\ load.val.t = "dict"
        /\ DictGet(load.val, "HotelId").t = "str"
        /\ UuidCanonical(DictGet(load.val, "HotelId").s) # NONE
        /\ \E k \in DOMAIN Hotels :
              Hotels[k].pms_hotel_id = UuidCanonical(DictGet(load.val, "HotelId").s)

\* C11: clean_webhook_payload never raises, and returns None for every payload
\* that is None, empty, no JSON, without a HotelId, with a HotelId that is no
\* UUID or that no local Hotel has, the payload being a str or a bytes object.
C11_InvalidYieldsNone ==
    Cleaned
    => /\ cw.ends = "return"
       /\ ~ValidPayload(cw.payload) => cw.value = NoneDict

\* C12: for a str payload whose text is a JSON object with the HotelId of a
\* local Hotel, clean_webhook_payload returns hotel_id = that Hotel's id and
\* data = the whole parsed object, HotelId included, and writes no Guest or
\* Stay row.
C12_ValidYieldsCleaned ==
    (Cleaned /\ cw.payload.kind = "str" /\ ValidPayload(cw.payload))
    => LET load == Loads(cw.payload.tokens).val
           uuid == UuidCanonical(DictGet(load, "HotelId").s)
       IN  /\ cw.ends = "return"
           /\ cw.value # NoneDict
           /\ \E k \in DOMAIN Hotels :
                 /\ Hotels[k].pms_hotel_id = uuid
                 /\ cw.value.hotel_id = Hotels[k].id
           /\ cw.value.data = load
           /\ \E k \in DOMAIN cw.value.data.keys :
                 /\ cw.value.data.keys[k] = "HotelId"
                 /\ cw.value.data.items[k] = DictGet(load, "HotelId")
           /\ guests = cw.before.guests
           /\ stays = cw.before.stays

\* C12 witness: a payload naming the bound hotel in capitals, with an Events
\* list holding an event, was cleaned while the tables held rows
C12_Witness ==
    /\ Cleaned /\ cw.payload.kind = "str" /\ ValidPayload(cw.payload)
    /\ cw.ends = "return"
    /\ cw.value # NoneDict
    /\ cw.value.hotel_id = HotelLocalId
    /\ DictGet(cw.value.data, "HotelId") = JsonStr(HotelUuidUpper)
    /\ DictGet(cw.value.data, "Events").t = "list"
    /\ Len(DictGet(cw.value.data, "Events").items) = 1
    /\ guests # <<>>

\* -------------------- claims: check_and_resolve_phone_number, invariants
\* C13: after any sequence of calls of the resolver from the empty table, no two
\* Guests have the same phone.
C13_PhonesUnique ==
    \A i, j \in DOMAIN guests : i # j => guests[i].phone # guests[j].phone

\* ------------------------------------- claims: handle_webhook, the tables
\* the Stay rows handle_webhook has written (all but a seeded row it left alone)
WrittenStays ==
    {k \in DOMAIN stays : ~(obs.seeded /\ k = 1 /\ stays[k] = SeedStays[1])}

\* the vendor's guest detail of the reservation a Stay row is for
OwnGuest(stay) == VendorGuest(VendorReservation(stay.pms_reservation_id).GuestId)

\* C14: every Stay row handle_webhook has written carries the vendor guest id
\* of its own reservation and references a Guest with the name and language of
\* that reservation's own guest detail.
C14_StayOfOwnGuest ==
    \A k \in WrittenStays :
        /\ stays[k].pms_guest_id = OwnGuest(stays[k]).GuestId
        /\ stays[k].guest \in DOMAIN guests
        /\ ~DifferentGuest(guests[stays[k].guest],
                           NormalName(OwnGuest(stays[k]).Name),
                           NormalLanguage(OwnGuest(stays[k]).Country))

\* ------------------- claims: check_and_resolve_phone_number, termination
\* C15: every call of the resolver returns; each of its invocations but the
\* last recurses on the phone it looked up with the suffix appended, which is
\* strictly longer, and the invocations are at most the Guests of the table
\* plus one.
C15_ResolverTerminates ==
    Called
    => /\ last.guest \in DOMAIN guests
       /\ last.result \in {RESULT_NONE, RESULT_CREATE, RESULT_UPDATE}
       /\ last.calls = Len(last.lookups)
       /\ last.lookups[1] = last.phone
       /\ \A k \in 1..(Len(last.lookups) - 1) :
             /\ last.lookups[k + 1] = last.lookups[k] \o DUPLICATE_PHONE_SUFFIX
             /\ Len(last.lookups[k + 1]) > Len(last.lookups[k])
       /\ last.calls <= Len(last.before) + 1

\* C15 witness: a call on a table of two Guests took three invocations, the
\* most the table allows
C15_Witness ==
    /\ Called
    /\ Len(last.before) = 2
    /\ last.calls = 3
    /\ last.calls = Len(last.before) + 1
    /\ last.result = RESULT_UPDATE

\* -------------------------------- claims: handle_webhook, the Stay table
StayKeysUnique ==
    \A k, l \in DOMAIN stays :
        k # l => stays[k].pms_reservation_id # stays[l].pms_reservation_id

\* a step deletes no Stay row and leaves every row with its reservation id
StaysKept ==
    /\ Len(stays') >= Len(stays)
    /\ \A k \in DOMAIN stays :
          stays'[k].pms_reservation_id = stays[k].pms_reservation_id

\* a step that finds a Stay row for the reservation it merges adds no row
StayOverwritten ==
    (hw.pc = "merge" /\ hw'.pc = "merge" /\ hw'.j = hw.j + 1
        /\ StayRows(stays, hw.reservationUpdatesList[hw.j].ReservationId) # {})
    => Len(stays') = Len(stays)

\* C16: through any sequence of webhooks delivered one after the other, with
\* any pattern of vendor failures, the Stay table holds at most one row for a
\* reservation id; a webhook for a reservation id already stored adds no row,
\* and no row is deleted or given another reservation id.
C16_OneStayPerReservation ==
    []StayKeysUnique /\ [][StaysKept /\ StayOverwritten]_vars

\* C16 witness: a later webhook has overwritten the fields of a row an earlier
\* webhook wrote, the table having as many rows as before
C16_Witness ==
    /\ Done
    /\ obs.calls >= 2
    /\ Len(stays) = Len(obs.start.stays)
    /\ \E k \in DOMAIN obs.start.stays :
          /\ stays[k] # obs.start.stays[k]
          /\ stays[k].pms_reservation_id = obs.start.stays[k].pms_reservation_id
          /\ k \in WrittenStays
          /\ ~(obs.seeded /\ k = 1)

\* ------------------- claims: check_and_resolve_phone_number, concurrency
BothReturned == th # NoCall /\ \A t \in Threads : th.of[t].pc = "done"

\* the Guest table after the call for candidate c and then the call for
\* candidate d, run one after the other on the table gs
Serial(gs, c, d) ==
    LET first == check_and_resolve_phone_number(gs, c.phone, c.name, c.language, NoId)
    IN  check_and_resolve_phone_number(first.guests, d.phone, d.name, d.language,
                                       NoId).guests

\* C17: when two calls of the resolver on the same phone run at the same time,
\* the Guest table they leave is one that the two calls leave when run one
\* after the other, in one order or the other.
C17_ResolveAtomic ==
    BothReturned
    => \/ guests = Serial(th.start, th.of[1].candidate, th.of[2].candidate)
       \/ guests = Serial(th.start, th.of[2].candidate, th.of[1].candidate)

\* ------------------------------------ claims: api_call_retry, the sleeps
Sleeps(trace) == Cardinality({k \in DOMAIN trace : trace[k] = "sleep"})

\* C18: every sleep of a call is followed by another invocation of the
\* function, and a call that ends with APIError after using up retry = r has
\* slept exactly r times.
C18_SleepsOnlyBetweenAttempts ==
    Retried
    => /\ \A k \in DOMAIN rc.trace :
             rc.trace[k] = "sleep"
                 => (k < Len(rc.trace) /\ rc.trace[k + 1] = "call")
       /\ rc.ends = "APIError" => Sleeps(rc.trace) = rc.retry

\* C19: when the function raises APIError on its first k invocations, k within
\* the retry budget, and another exception on the next one, the call ends with
\* that exception at once: the function has been invoked k + 1 times and no
\* more, with k sleeps, none of them after the last invocation.
C19_OtherErrorPropagates ==
    Retried =>
        LET k == LeadingFailures(rc.script, 1)
        IN  (k <= rc.retry /\ rc.script[k + 1] = "Error")
            => /\ rc.ends = "Error"
               /\ rc.invocations = k + 1
               /\ Sleeps(rc.trace) = k
               /\ Len(rc.trace) = 2 * k + 1
               /\ rc.trace[Len(rc.trace)] = "call"

\* C19 witness: with retries left, the function raised another exception on
\* its second invocation and would have returned on the third
C19_Witness ==
    /\ Retried /\ rc.retry = 3
    /\ rc.script[1] = "APIError" /\ rc.script[2] = "Error" /\ rc.script[3] = "ok"
    /\ rc.ends = "Error"
    /\ rc.invocations = 2
    /\ rc.trace = <<"call", "sleep", "call">>

\* ------------------- claims: check_and_resolve_phone_number, idempotence
\* the step is a call of the resolver with the candidate of the call before it
SameCandidateAgain ==
    /\ Called
    /\ last'.phone = last.phone
    /\ last'.name = last.name
    /\ last'.language = last.language

\* C20: a call of the resolver with the candidate of the call just before it
\* returns the Guest that call returned and leaves the Guest table as it was.
C20_ResolveIdempotent ==
    [][SameCandidateAgain => (guests' = guests /\ last'.guest = last.guest)]_vars

\* --------------------- claims: check_and_resolve_phone_number, failures
\* the call has returned None for the Guest
ReturnedNone == th # NoCall /\ th.of[1].pc = "done" /\ th.of[1].guest = NoId

\* C21: when a query of the Guest table fails and the call returns None for the
\* Guest, the Guest table is as it was before the call.
C21_FailureLeavesStore ==
    ReturnedNone => guests = th.start

====
